---------------------------- MODULE Spec2Model ----------------------------
(***************************************************************************)
(* Model of misc-scripts/python-aws-tag-ebs-volumes/tag_ebs_volumes.py:    *)
(* start_tagging_volumes (association resolution, tag diff, apply step)    *)
(* and its helpers filter_tags, tags_to_dict, dict_to_tags,                *)
(* get_resource_tags and get_instance_volumes.                             *)
(*                                                                         *)
(* A Python dict is a sequence of <<key, value>> pairs with distinct keys, *)
(* in insertion order.  A tag list of the EC2 API is a sequence of records *)
(* [Key, Value].  A tag key is a sequence of one-character strings, a glob *)
(* pattern a sequence of characters and of the wildcards "*" and "?".      *)
(***************************************************************************)
EXTENDS Integers, Sequences, FiniteSets

VARIABLES
    \* arguments of start_tagging_volumes
    instance_ids,        \* set(instance_ids), the ids the first loop iterates
    ebs_volume_ids,      \* set(ebs_volume_ids), the ids the second loop iterates
    tags,                \* the glob patterns (--tags)
    overwrite,
    dry_run,
    \* the cloud
    cloud_volumes,       \* volume id -> [state, attachments]
    \* locals of start_tagging_volumes
    todo_instances,      \* ids the loop of line 113 has not visited yet
    todo_volumes,        \* ids the loop of line 123 has not visited yet
    tags_by_instance,    \* dict: instance id -> dict of tags
    volumes_by_instance, \* dict: instance id -> set of volume ids
    found_volumes,
    proc_index,          \* items of volumes_by_instance the loop of line 141 entered
    proc_todo,           \* volumes the loop of line 152 has not visited yet
    tags_on_instance,
    volume_id,
    tags_to_apply,
    raised,              \* "none", or the exception that left the function
    raised_on,           \* the instance or volume the raising request named
    \* observations
    processed,           \* volumes that reached the diff of lines 161-190
    create_tags_calls,   \* the create_tags requests issued, in order
    describe_tags_calls, \* instance id -> number of describe_tags requests
    \* one volume's tags through diff, write and a second diff
    h_phase,
    h_instance_tags,     \* describe_tags' answer for the instance
    h_volume_tags,       \* the tags the cloud holds for the volume
    h_before,            \* the tags the cloud held before the write
    h_tags_on_instance,
    h_tags_on_volume,
    h_tags_to_apply,
    h_calls,
    h_new,
    h_differing,
    h_filtered

optvars == <<tags, overwrite, dry_run>>

runvars == <<instance_ids, ebs_volume_ids, cloud_volumes, todo_instances,
             todo_volumes, tags_by_instance, volumes_by_instance,
             found_volumes, proc_index, proc_todo, tags_on_instance,
             volume_id, tags_to_apply, raised, raised_on, processed,
             create_tags_calls, describe_tags_calls>>

hvars == <<h_phase, h_instance_tags, h_volume_tags, h_before,
           h_tags_on_instance, h_tags_on_volume, h_tags_to_apply, h_calls,
           h_new, h_differing, h_filtered>>

vars == <<optvars, runvars, hvars>>

---------------------------------------------------------------------------
\* Bounds

NumInstances == 2
NumVolumes == 2
MaxTags == 2
MaxPatterns == 1

Instances == 1..NumInstances
Volumes == 1..NumVolumes

\* The tag keys of the model, in the order the API lists them.
KeyOrder == << <<"a">>, <<"a", "b">>, <<"b">> >>
Keys == {KeyOrder[i] : i \in DOMAIN KeyOrder}
KeyIndex(k) == CHOOSE i \in DOMAIN KeyOrder : KeyOrder[i] = k
TagValues == {"web", "disk"}

PatternChoices == { <<"a", "*">>, <<"?">>, <<"b">> }
PatternLists == UNION {[1..n -> PatternChoices] : n \in 0..MaxPatterns}

\* Tag lists as the API returns them: distinct keys, at most MaxTags of them.
TagLists ==
    {l \in UNION {[1..n -> [Key : Keys, Value : TagValues]] : n \in 0..MaxTags} :
        \A i, j \in DOMAIN l : i < j => KeyIndex(l[i].Key) < KeyIndex(l[j].Key)}

\* The tags and patterns of a whole run.
RunInstanceTagLists == {<<[Key |-> <<"a">>, Value |-> "web"]>>}
RunVolumeTagLists == {<<>>, <<[Key |-> <<"a">>, Value |-> "disk"]>>}
RunPatternLists == {<<>>, << <<"a", "*">> >>}

---------------------------------------------------------------------------
\* Python builtins

ToSet(s) == {s[i] : i \in DOMAIN s}

RECURSIVE SetToSeq(_)
SetToSeq(S) ==
    IF S = {} THEN <<>>
    ELSE LET x == CHOOSE y \in S : \A z \in S : y <= z
         IN <<x>> \o SetToSeq(S \ {x})

DictKeys(d) == {d[i][1] : i \in DOMAIN d}
DictHas(d, k) == \E i \in DOMAIN d : d[i][1] = k
DictGet(d, k) == d[CHOOSE i \in DOMAIN d : d[i][1] = k][2]
DictSet(d, k, v) ==
    IF DictHas(d, k)
    THEN [i \in DOMAIN d |-> IF d[i][1] = k THEN <<k, v>> ELSE d[i]]
    ELSE Append(d, <<k, v>>)

\* {**a, **b}
RECURSIVE DictMerge(_, _)
DictMerge(a, b) ==
    IF b = <<>> THEN a
    ELSE DictMerge(DictSet(a, Head(b)[1], Head(b)[2]), Tail(b))

\* fnmatch.fnmatch(name, pat) on a case-sensitive platform, for patterns of
\* literal characters, "*" and "?".
RECURSIVE fnmatch(_, _)
fnmatch(name, pat) ==
    IF pat = <<>> THEN name = <<>>
    ELSE IF Head(pat) = "*"
         THEN fnmatch(name, Tail(pat))
              \/ (name # <<>> /\ fnmatch(Tail(name), pat))
         ELSE /\ name # <<>>
              /\ (Head(pat) = "?" \/ Head(pat) = Head(name))
              /\ fnmatch(Tail(name), Tail(pat))

---------------------------------------------------------------------------
\* Helpers of the script

RECURSIVE tags_to_dict(_)
tags_to_dict(tag_list) ==
    IF tag_list = <<>> THEN <<>>
    ELSE LET n == Len(tag_list)
         IN DictSet(tags_to_dict(SubSeq(tag_list, 1, n - 1)),
                    tag_list[n].Key, tag_list[n].Value)

dict_to_tags(d) == [i \in DOMAIN d |-> [Key |-> d[i][1], Value |-> d[i][2]]]

filter_tags(d, patterns) ==
    SelectSeq(d, LAMBDA kv : \E i \in DOMAIN patterns : fnmatch(kv[1], patterns[i]))

get_resource_tags(api_tags) == tags_to_dict(api_tags)

get_instance_volumes(instance_id) ==
    SetToSeq({v \in Volumes :
                /\ cloud_volumes[v].attachments # <<>>
                /\ cloud_volumes[v].attachments[1].InstanceId = instance_id})

---------------------------------------------------------------------------
\* The steps of start_tagging_volumes on one instance's and one volume's tags

\* `if tags:`
FilterConfiguredAlways(patterns) == TRUE

FilterConfigured(patterns) == patterns # <<>>

InstanceViewUnfiltered(d, patterns) == d

InstanceView(d, patterns) ==
    IF FilterConfigured(patterns) THEN filter_tags(d, patterns) ELSE d

VolumeView(tag_list, patterns) ==
    LET d == tags_to_dict(tag_list)
    IN IF FilterConfigured(patterns) THEN filter_tags(d, patterns) ELSE d

new_tags(ti, tv) == SelectSeq(ti, LAMBDA kv : ~DictHas(tv, kv[1]))

same_tags(ti, tv) ==
    SelectSeq(ti, LAMBDA kv : DictHas(tv, kv[1]) /\ DictGet(tv, kv[1]) = kv[2])

differing_tags(ti, tv) ==
    SelectSeq(ti, LAMBDA kv : DictHas(tv, kv[1]) /\ DictGet(tv, kv[1]) # kv[2])

differing_tags_on_volume(ti, tv) ==
    SelectSeq(tv, LAMBDA kv : DictHas(differing_tags(ti, tv), kv[1]))

missing_tags(ti, tv) == SelectSeq(tv, LAMBDA kv : ~DictHas(ti, kv[1]))

ApplyAlwaysOverwrites(ti, tv, ow) ==
    DictMerge(new_tags(ti, tv), differing_tags(ti, tv))

ApplyOnlyDiffering(ti, tv, ow) ==
    IF ow THEN differing_tags(ti, tv) ELSE new_tags(ti, tv)

ComputeTagsToApply(ti, tv, ow) ==
    IF ow THEN DictMerge(new_tags(ti, tv), differing_tags(ti, tv))
    ELSE new_tags(ti, tv)

CallsCreateTagsIgnoringDryRun(apply, dry) == apply # <<>>

CallsCreateTags(apply, dry) == apply # <<>> /\ ~dry

CreateTagsRequest(vol, apply) ==
    [Resources |-> <<vol>>, Tags |-> dict_to_tags(apply)]

\* What create_tags does to the tags the cloud holds for the volume: each
\* tag of the request is added, or replaces the tag of the same key.
RECURSIVE CloudCreateTags(_, _)
CloudCreateTags(held, request_tags) ==
    IF request_tags = <<>> THEN held
    ELSE LET t == Head(request_tags)
             hit == {i \in DOMAIN held : held[i].Key = t.Key}
         IN CloudCreateTags(
                IF hit = {} THEN Append(held, t)
                ELSE [i \in DOMAIN held |-> IF i \in hit THEN t ELSE held[i]],
                Tail(request_tags))

---------------------------------------------------------------------------
\* A run of start_tagging_volumes

\* The id lists a caller passes: the first k ids, with or without a repeat.
\* (Ids are interchangeable, so the first k stand for any k of them.)
IdLists(n) ==
    {SetToSeq(1..k) : k \in 0..n} \cup {SetToSeq(1..k) \o <<1>> : k \in 1..n}

VolumeRecords ==
    [state : {"available", "in-use"},
     attachments : {<<>>} \cup {<<[InstanceId |-> i]>> : i \in Instances}]

HarnessOff ==
    /\ h_phase = "off"
    /\ h_instance_tags = <<>>
    /\ h_volume_tags = <<>>
    /\ h_before = <<>>
    /\ h_tags_on_instance = <<>>
    /\ h_tags_on_volume = <<>>
    /\ h_tags_to_apply = <<>>
    /\ h_calls = <<>>
    /\ h_new = <<>>
    /\ h_differing = <<>>
    /\ h_filtered = <<>>

Init ==
    /\ \E il \in IdLists(NumInstances), vl \in IdLists(NumVolumes) :
         /\ instance_ids = ToSet(il)
         /\ ebs_volume_ids = ToSet(vl)
    /\ tags \in RunPatternLists
    /\ overwrite \in BOOLEAN
    /\ dry_run \in BOOLEAN
    /\ cloud_volumes \in [Volumes -> VolumeRecords]
    /\ todo_instances = instance_ids
    /\ todo_volumes = ebs_volume_ids
    /\ tags_by_instance = <<>>
    /\ volumes_by_instance = <<>>
    /\ found_volumes = {}
    /\ proc_index = 0
    /\ proc_todo = {}
    /\ tags_on_instance = <<>>
    /\ volume_id = 0
    /\ tags_to_apply = <<>>
    /\ raised = "none"
    /\ raised_on = 0
    /\ processed = {}
    /\ create_tags_calls = <<>>
    /\ describe_tags_calls = [i \in Instances |-> 0]
    /\ HarnessOff

procvars == <<proc_index, proc_todo, tags_on_instance, volume_id,
              tags_to_apply, processed, create_tags_calls>>

inputvars == <<instance_ids, ebs_volume_ids, cloud_volumes>>

\* lines 113-120: one iteration of the loop over set(instance_ids)
ResolveInstance ==
    /\ raised = "none"
    /\ todo_instances # {}
    /\ \E instance_id \in todo_instances, api_tags \in RunInstanceTagLists :
         LET vols == ToSet(get_instance_volumes(instance_id))
         IN /\ tags_by_instance' =
                  DictSet(tags_by_instance, instance_id, get_resource_tags(api_tags))
            /\ describe_tags_calls' =
                  [describe_tags_calls EXCEPT ![instance_id] = @ + 1]
            /\ volumes_by_instance' = DictSet(volumes_by_instance, instance_id, vols)
            /\ found_volumes' = found_volumes \cup vols
            /\ todo_instances' = todo_instances \ {instance_id}
    /\ UNCHANGED <<todo_volumes, raised, raised_on, procvars, inputvars, optvars, hvars>>

\* line 114: describe_tags raises
ResolveInstanceTagsRaise ==
    /\ raised = "none"
    /\ todo_instances # {}
    /\ \E instance_id \in todo_instances :
         /\ describe_tags_calls' =
               [describe_tags_calls EXCEPT ![instance_id] = @ + 1]
         /\ todo_instances' = todo_instances \ {instance_id}
         /\ raised_on' = instance_id
    /\ raised' = "describe_tags"
    /\ UNCHANGED <<tags_by_instance, volumes_by_instance, found_volumes,
                   todo_volumes, procvars, inputvars, optvars, hvars>>

\* line 117: the listing of the instance's volumes raises
ResolveInstanceVolumesRaise ==
    /\ raised = "none"
    /\ todo_instances # {}
    /\ \E instance_id \in todo_instances, api_tags \in RunInstanceTagLists :
         /\ tags_by_instance' =
               DictSet(tags_by_instance, instance_id, get_resource_tags(api_tags))
         /\ describe_tags_calls' =
               [describe_tags_calls EXCEPT ![instance_id] = @ + 1]
         /\ todo_instances' = todo_instances \ {instance_id}
         /\ raised_on' = instance_id
    /\ raised' = "instance.volumes"
    /\ UNCHANGED <<volumes_by_instance, found_volumes, todo_volumes, procvars,
                   inputvars, optvars, hvars>>

\* line 127
IsAvailableNever(ebs_volume) == FALSE

IsAvailable(ebs_volume) == ebs_volume.state = "available"

\* line 133
NeedsFetchAlways(instance_id) == TRUE

NeedsFetch(instance_id) == ~DictHas(tags_by_instance, instance_id)

\* lines 123-138: one iteration of the loop over set(ebs_volume_ids)
ResolveVolume ==
    /\ raised = "none"
    /\ todo_instances = {}
    /\ todo_volumes # {}
    /\ \E vol_id \in todo_volumes :
         LET ebs_volume == cloud_volumes[vol_id]
         IN /\ todo_volumes' = todo_volumes \ {vol_id}
            /\ IF vol_id \in found_volumes \/ IsAvailable(ebs_volume)
               THEN UNCHANGED <<tags_by_instance, volumes_by_instance,
                                found_volumes, describe_tags_calls>>
               ELSE /\ ebs_volume.attachments # <<>>
                    /\ LET instance_id == ebs_volume.attachments[1].InstanceId
                       IN IF NeedsFetch(instance_id)
                          THEN \E api_tags \in RunInstanceTagLists :
                                 /\ tags_by_instance' =
                                       DictSet(tags_by_instance, instance_id,
                                               get_resource_tags(api_tags))
                                 /\ describe_tags_calls' =
                                       [describe_tags_calls
                                          EXCEPT ![instance_id] = @ + 1]
                                 /\ volumes_by_instance' =
                                       DictSet(volumes_by_instance,
                                               instance_id, {vol_id})
                                 /\ found_volumes' = found_volumes \cup {vol_id}
                          ELSE UNCHANGED <<tags_by_instance, volumes_by_instance,
                                           found_volumes, describe_tags_calls>>
    /\ UNCHANGED <<todo_instances, raised, raised_on, procvars, inputvars, optvars, hvars>>

\* line 132: attachments[0] of a volume that is not available and has no
\* attachment raises IndexError
ResolveVolumeIndexError ==
    /\ raised = "none"
    /\ todo_instances = {}
    /\ todo_volumes # {}
    /\ \E vol_id \in todo_volumes :
         /\ vol_id \notin found_volumes
         /\ ~IsAvailable(cloud_volumes[vol_id])
         /\ cloud_volumes[vol_id].attachments = <<>>
         /\ todo_volumes' = todo_volumes \ {vol_id}
         /\ raised_on' = vol_id
    /\ raised' = "IndexError"
    /\ UNCHANGED <<todo_instances, tags_by_instance, volumes_by_instance,
                   found_volumes, describe_tags_calls, procvars, inputvars,
                   optvars, hvars>>

\* line 127: loading the volume raises; line 134: describe_tags raises
ResolveVolumeLookupRaise ==
    /\ raised = "none"
    /\ todo_instances = {}
    /\ todo_volumes # {}
    /\ \E vol_id \in todo_volumes :
         /\ vol_id \notin found_volumes
         /\ todo_volumes' = todo_volumes \ {vol_id}
         /\ \/ /\ raised' = "describe_volumes"
               /\ raised_on' = vol_id
               /\ UNCHANGED describe_tags_calls
            \/ /\ ~IsAvailable(cloud_volumes[vol_id])
               /\ cloud_volumes[vol_id].attachments # <<>>
               /\ NeedsFetch(cloud_volumes[vol_id].attachments[1].InstanceId)
               /\ raised' = "describe_tags"
               /\ raised_on' = cloud_volumes[vol_id].attachments[1].InstanceId
               /\ describe_tags_calls' =
                     [describe_tags_calls
                        EXCEPT ![cloud_volumes[vol_id].attachments[1].InstanceId] = @ + 1]
    /\ UNCHANGED <<todo_instances, tags_by_instance, volumes_by_instance,
                   found_volumes, procvars, inputvars, optvars, hvars>>

Resolved == raised = "none" /\ todo_instances = {} /\ todo_volumes = {}

\* lines 141-150: the loop over volumes_by_instance.items() enters an item
EnterInstance ==
    /\ Resolved
    /\ proc_todo = {}
    /\ proc_index < Len(volumes_by_instance)
    /\ LET item == volumes_by_instance[proc_index + 1]
       IN /\ tags_on_instance' =
                InstanceView(DictGet(tags_by_instance, item[1]), tags)
          /\ proc_todo' = item[2]
    /\ proc_index' = proc_index + 1
    /\ UNCHANGED <<volume_id, tags_to_apply, processed, create_tags_calls,
                   todo_instances, todo_volumes, tags_by_instance,
                   volumes_by_instance, found_volumes, describe_tags_calls,
                   raised, raised_on, inputvars, optvars, hvars>>

\* lines 152-217: one volume of the item
ProcessVolume ==
    /\ Resolved
    /\ proc_todo # {}
    /\ \E vol \in proc_todo, volume_tags \in RunVolumeTagLists :
         LET tags_on_volume == VolumeView(volume_tags, tags)
             apply == ComputeTagsToApply(tags_on_instance, tags_on_volume, overwrite)
         IN /\ volume_id' = vol
            /\ tags_to_apply' = apply
            /\ processed' = processed \cup {vol}
            /\ proc_todo' = proc_todo \ {vol}
            /\ create_tags_calls' =
                  IF CallsCreateTags(apply, dry_run)
                  THEN Append(create_tags_calls, CreateTagsRequest(vol, apply))
                  ELSE create_tags_calls
    /\ UNCHANGED <<proc_index, tags_on_instance, todo_instances, todo_volumes,
                   tags_by_instance, volumes_by_instance, found_volumes,
                   describe_tags_calls, raised, raised_on, inputvars, optvars,
                   hvars>>

\* lines 213-215: create_tags raises
ProcessVolumeCreateTagsRaise ==
    /\ Resolved
    /\ proc_todo # {}
    /\ \E vol \in proc_todo, volume_tags \in RunVolumeTagLists :
         LET tags_on_volume == VolumeView(volume_tags, tags)
             apply == ComputeTagsToApply(tags_on_instance, tags_on_volume, overwrite)
         IN /\ CallsCreateTags(apply, dry_run)
            /\ volume_id' = vol
            /\ tags_to_apply' = apply
            /\ processed' = processed \cup {vol}
            /\ proc_todo' = proc_todo \ {vol}
            /\ create_tags_calls' =
                  Append(create_tags_calls, CreateTagsRequest(vol, apply))
            /\ raised_on' = vol
    /\ raised' = "create_tags"
    /\ UNCHANGED <<proc_index, tags_on_instance, todo_instances, todo_volumes,
                   tags_by_instance, volumes_by_instance, found_volumes,
                   describe_tags_calls, inputvars, optvars, hvars>>

Next ==
    \/ ResolveInstance
    \/ ResolveInstanceTagsRaise
    \/ ResolveInstanceVolumesRaise
    \/ ResolveVolume
    \/ ResolveVolumeIndexError
    \/ ResolveVolumeLookupRaise
    \/ EnterInstance
    \/ ProcessVolume
    \/ ProcessVolumeCreateTagsRaise

Spec == Init /\ [][Next]_vars

\* The function returned normally.
Done ==
    /\ Resolved
    /\ proc_todo = {}
    /\ proc_index = Len(volumes_by_instance)

\* The function returned, or an exception left it.
Terminated == Done \/ raised # "none"

---------------------------------------------------------------------------
\* One instance and one volume: the diff of lines 142-190 on any two tag
\* lists, the write of lines 207-217, and the diff run again on what the
\* cloud then holds.  filter_tags is also called on its own.

RunOff ==
    /\ instance_ids = {}
    /\ ebs_volume_ids = {}
    /\ cloud_volumes = [v \in Volumes |-> [state |-> "available", attachments |-> <<>>]]
    /\ todo_instances = {}
    /\ todo_volumes = {}
    /\ tags_by_instance = <<>>
    /\ volumes_by_instance = <<>>
    /\ found_volumes = {}
    /\ proc_index = 0
    /\ proc_todo = {}
    /\ tags_on_instance = <<>>
    /\ volume_id = 0
    /\ tags_to_apply = <<>>
    /\ raised = "none"
    /\ raised_on = 0
    /\ processed = {}
    /\ create_tags_calls = <<>>
    /\ describe_tags_calls = [i \in Instances |-> 0]

TagsInit ==
    /\ RunOff
    /\ tags \in PatternLists
    /\ overwrite \in BOOLEAN
    /\ dry_run \in BOOLEAN
    /\ h_phase = "start"
    /\ h_instance_tags \in TagLists
    /\ h_volume_tags \in TagLists
    /\ h_before = h_volume_tags
    /\ h_tags_on_instance = <<>>
    /\ h_tags_on_volume = <<>>
    /\ h_tags_to_apply = <<>>
    /\ h_calls = <<>>
    /\ h_new = <<>>
    /\ h_differing = <<>>
    /\ h_filtered = <<>>

\* lines 142-190
DiffVolume ==
    /\ h_phase = "start"
    /\ h_phase' = "diffed"
    /\ LET ti == InstanceView(get_resource_tags(h_instance_tags), tags)
           tv == VolumeView(h_volume_tags, tags)
       IN /\ h_tags_on_instance' = ti
          /\ h_tags_on_volume' = tv
          /\ h_tags_to_apply' = ComputeTagsToApply(ti, tv, overwrite)
    /\ UNCHANGED <<h_instance_tags, h_volume_tags, h_before, h_calls, h_new,
                   h_differing, h_filtered, runvars, optvars>>

\* lines 207-217
ApplyVolume ==
    /\ h_phase = "diffed"
    /\ h_phase' = "applied"
    /\ IF CallsCreateTags(h_tags_to_apply, dry_run)
       THEN LET request == CreateTagsRequest(1, h_tags_to_apply)
            IN /\ h_calls' = Append(h_calls, request)
               /\ h_volume_tags' = CloudCreateTags(h_volume_tags, request.Tags)
       ELSE UNCHANGED <<h_calls, h_volume_tags>>
    /\ UNCHANGED <<h_instance_tags, h_before, h_tags_on_instance,
                   h_tags_on_volume, h_tags_to_apply, h_new, h_differing,
                   h_filtered, runvars, optvars>>

\* lines 142-175 again, on the tags the cloud holds after the write
RediffVolume ==
    /\ h_phase = "applied"
    /\ h_phase' = "rediffed"
    /\ LET ti == InstanceView(get_resource_tags(h_instance_tags), tags)
           tv == VolumeView(h_volume_tags, tags)
       IN /\ h_new' = new_tags(ti, tv)
          /\ h_differing' = differing_tags(ti, tv)
    /\ UNCHANGED <<h_instance_tags, h_volume_tags, h_before, h_tags_on_instance,
                   h_tags_on_volume, h_tags_to_apply, h_calls, h_filtered,
                   runvars, optvars>>

\* lines 86-94: filter_tags(tags_on_instance, tags) called directly
FilterTags ==
    /\ h_phase = "start"
    /\ h_phase' = "filtered"
    /\ h_filtered' = filter_tags(get_resource_tags(h_instance_tags), tags)
    /\ UNCHANGED <<h_instance_tags, h_volume_tags, h_before, h_tags_on_instance,
                   h_tags_on_volume, h_tags_to_apply, h_calls, h_new,
                   h_differing, runvars, optvars>>

TagsNext ==
    \/ DiffVolume
    \/ ApplyVolume
    \/ RediffVolume
    \/ FilterTags

SpecTags == TagsInit /\ [][TagsNext]_vars

---------------------------------------------------------------------------
\* Properties

Pairs(d) == ToSet(d)
TagPairs(tag_list) == {<<tag_list[i].Key, tag_list[i].Value>> : i \in DOMAIN tag_list}
TagKeys(tag_list) == {tag_list[i].Key : i \in DOMAIN tag_list}

\* The volumes the cloud lists for the instance.
AttachedTo(i) ==
    {v \in Volumes : /\ cloud_volumes[v].attachments # <<>>
                     /\ cloud_volumes[v].attachments[1].InstanceId = i}

\* The items of volumes_by_instance whose volume set holds v.
SetsHolding(v) ==
    {n \in DOMAIN volumes_by_instance : v \in volumes_by_instance[n][2]}

\* The volumes create_tags requests named.
Tagged == UNION {ToSet(create_tags_calls[n].Resources) : n \in DOMAIN create_tags_calls}

\* C1: after the resolution phase every supplied volume that is not
\* available, and every volume an explicit instance lists, is in exactly
\* one instance's volume set.
C1_EveryVolumeInOneSet ==
    Resolved =>
        \A v \in Volumes :
            (\/ v \in ebs_volume_ids /\ cloud_volumes[v].state # "available"
             \/ \E i \in instance_ids : v \in AttachedTo(i))
            => Cardinality(SetsHolding(v)) = 1

\* C2: a supplied volume that is available and that no explicit instance
\* lists is in no instance's volume set, and no create_tags request names it.
C2_AvailableNeverTagged ==
    \A v \in ebs_volume_ids :
        (/\ cloud_volumes[v].state = "available"
         /\ \A i \in instance_ids : v \notin AttachedTo(i))
        => SetsHolding(v) = {} /\ v \notin Tagged

C2_Witness ==
    /\ Done
    /\ create_tags_calls # <<>>
    /\ \E v \in ebs_volume_ids :
         /\ cloud_volumes[v].state = "available"
         /\ cloud_volumes[v].attachments # <<>>
         /\ \A i \in instance_ids : v \notin AttachedTo(i)

\* C3: the apply-set holds exactly the instance's pairs whose key the volume
\* lacks and, with overwrite, those whose key the volume holds with another
\* value; a key the volume holds with the same value, or that only the
\* volume holds, is never in it.
C3_ApplySet ==
    h_phase \in {"diffed", "applied", "rediffed"} =>
        LET ti == h_tags_on_instance
            tv == h_tags_on_volume
            ap == h_tags_to_apply
        IN /\ Pairs(ap) =
                {kv \in Pairs(ti) :
                    \/ kv[1] \notin DictKeys(tv)
                    \/ overwrite /\ <<kv[1], kv[2]>> \notin Pairs(tv)}
           /\ Cardinality(DictKeys(ap)) = Len(ap)
           /\ \A kv \in Pairs(tv) :
                (kv \in Pairs(ti) \/ kv[1] \notin DictKeys(ti))
                => kv[1] \notin DictKeys(ap)

C3_Witness ==
    /\ h_phase = "diffed"
    /\ overwrite
    /\ Len(h_tags_to_apply) = 2
    /\ \E kv \in Pairs(h_tags_on_instance) : kv[1] \notin DictKeys(h_tags_on_volume)
    /\ \E kv \in Pairs(h_tags_on_instance) :
         kv[1] \in DictKeys(h_tags_on_volume) /\ kv \notin Pairs(h_tags_on_volume)
    /\ \E kv \in Pairs(h_tags_on_volume) : kv[1] \notin DictKeys(h_tags_on_instance)

\* C4: create_tags is requested for a volume iff its apply-set is not empty
\* and dry_run is false; the request names that volume alone and carries
\* the pairs of the apply-set; with dry_run no request is issued at all.
C4_CreateTagsIffNeeded ==
    /\ dry_run => create_tags_calls = <<>>
    /\ \A n \in DOMAIN create_tags_calls :
         /\ Len(create_tags_calls[n].Resources) = 1
         /\ create_tags_calls[n].Resources[1] \in processed
         /\ \A m \in DOMAIN create_tags_calls :
              create_tags_calls[m].Resources = create_tags_calls[n].Resources => m = n
    /\ processed # {} =>
         /\ volume_id \in Tagged <=> (tags_to_apply # <<>> /\ ~dry_run)
         /\ volume_id \in Tagged =>
              LET last == create_tags_calls[Len(create_tags_calls)]
              IN /\ last.Resources = <<volume_id>>
                 /\ TagPairs(last.Tags) = Pairs(tags_to_apply)
                 /\ Len(last.Tags) = Len(tags_to_apply)

C4_Witness ==
    /\ Done
    /\ create_tags_calls # <<>>
    /\ Cardinality(processed) > Len(create_tags_calls)
    /\ volume_id \in Tagged

\* C5: when create_tags fails for one volume the run continues, so when the
\* function is left every volume of the AssociationMap went through the diff.
C5_ApplyErrorIsolated ==
    (Terminated /\ raised = "create_tags") =>
        \A n \in DOMAIN volumes_by_instance : volumes_by_instance[n][2] \subseteq processed

\* C6: a resolution failure skips only the resource it concerns, so when the
\* function is left the volumes of the other explicit instances and the
\* other supplied volumes went through the diff.
C6_ResolutionErrorIsolated ==
    (Terminated /\ raised \in {"describe_tags", "instance.volumes",
                               "describe_volumes", "IndexError"}) =>
        /\ \A i \in instance_ids :
             ~(raised \in {"describe_tags", "instance.volumes"} /\ raised_on = i)
             => AttachedTo(i) \subseteq processed
        /\ \A v \in ebs_volume_ids :
             (/\ ~(raised \in {"describe_volumes", "IndexError"} /\ raised_on = v)
              /\ cloud_volumes[v].state # "available"
              /\ cloud_volumes[v].attachments # <<>>
              /\ ~(raised = "describe_tags"
                   /\ raised_on = cloud_volumes[v].attachments[1].InstanceId))
             => v \in processed

\* C7: describe_tags is requested at most once for every instance.
C7_TagsFetchedOnce == \A i \in Instances : describe_tags_calls[i] <= 1

C7_Witness ==
    /\ Resolved
    /\ \E i \in Instances \ instance_ids :
         /\ describe_tags_calls[i] = 1
         /\ Cardinality(ebs_volume_ids \cap AttachedTo(i)) >= 2
         /\ \A v \in ebs_volume_ids \cap AttachedTo(i) :
              cloud_volumes[v].state # "available"

\* C8: filter_tags called with an empty pattern list returns the tags
\* unchanged.
C8_FilterEmptyIsNoOp ==
    (h_phase = "filtered" /\ tags = <<>>) =>
        Pairs(h_filtered) = TagPairs(h_instance_tags)

\* C8, amended: with an empty pattern list start_tagging_volumes does not
\* call filter_tags and diffs the unfiltered tags of instance and volume;
\* filter_tags itself returns no tag for an empty pattern list.
C8_EmptyFilterSkipped ==
    /\ (h_phase = "filtered" /\ tags = <<>>) => h_filtered = <<>>
    /\ (h_phase = "diffed" /\ tags = <<>>) =>
         /\ Pairs(h_tags_on_instance) = TagPairs(h_instance_tags)
         /\ Pairs(h_tags_on_volume) = TagPairs(h_volume_tags)

C8_Witness ==
    /\ h_phase = "diffed"
    /\ tags = <<>>
    /\ Len(h_tags_on_instance) = 2
    /\ h_tags_on_volume # <<>>

\* C9: once the apply-set is written, the diff run again finds no new tag
\* and, with overwrite, no differing tag.
C9_ConvergesInOnePass ==
    (h_phase = "rediffed" /\ ~dry_run) =>
        /\ h_new = <<>>
        /\ overwrite => h_differing = <<>>

C9_Witness ==
    /\ h_phase = "rediffed"
    /\ ~dry_run
    /\ overwrite
    /\ Len(h_tags_to_apply) = 2
    /\ h_calls # <<>>
    /\ h_before # <<>>
    /\ h_volume_tags # h_before

\* C10: without overwrite every tag the volume held keeps its value, also
\* under a filter; with overwrite the tags only the volume holds, and
\* those whose key matches no configured pattern, keep their values.
C10_VolumeTagsKept ==
    h_phase \in {"applied", "rediffed"} =>
        \A t \in TagPairs(h_before) :
            (\/ ~overwrite
             \/ t[1] \notin TagKeys(h_instance_tags)
             \/ tags # <<>> /\ \A n \in DOMAIN tags : ~fnmatch(t[1], tags[n]))
            => /\ t \in TagPairs(h_volume_tags)
               /\ Cardinality({u \in TagPairs(h_volume_tags) : u[1] = t[1]}) = 1

C10_Witness ==
    /\ h_phase = "applied"
    /\ ~overwrite
    /\ tags # <<>>
    /\ h_calls # <<>>
    /\ \E t \in TagPairs(h_before) :
         /\ t[1] \notin DictKeys(h_tags_on_volume)
         /\ t[1] \in TagKeys(h_instance_tags)
         /\ t \notin TagPairs(h_instance_tags)

===========================================================================
